---- MODULE Spec2Model ----
(***************************************************************************)
(* Model of backend/scripts/exapy-answer.py: a four-step script            *)
(*                                                                         *)
(*     load_dotenv()                                                       *)
(*     exa = Exa(api_key=os.getenv("EXA_API_KEY"))                         *)
(*     exa.answer("What's the TCP structure?")                             *)
(*                                                                         *)
(* The process environment, the .env file and the remote service are the   *)
(* inputs; they are drawn from small sets in Init.  Every call returns an  *)
(* outcome record whose field "raised" is None or the name of the          *)
(* exception it raised; an exception raised by a top-level statement is    *)
(* not enclosed by any try block and ends the process.                     *)
(***************************************************************************)
EXTENDS Integers, Sequences, FiniteSets, TLC

\* ---------------------------------------------------------------- bounds
MaxFileLen == 2
MaxLoads == 2

\* ------------------------------------------------------------ vocabulary
\* Python's None; distinct from every string an environment can hold.
None == "<None>"

KeyName == "EXA_API_KEY"

Keys == {"EXA_API_KEY", "OTHER"}

\* Strings an environment variable or a .env line can hold ("" is allowed).
Values == {"valid-key", "revoked-key", ""}

\* The credentials the remote service accepts.
ValidKeys == {"valid-key"}

RemoteStates == {"up", "unreachable", "erroring"}

Query == "What's the TCP structure?"

NoClient == [constructed |-> FALSE, api_key |-> None]

NoWrites == [stdout |-> <<>>, stderr |-> <<>>, log |-> <<>>, store |-> <<>>]

VARIABLES
    pc,               \* statement about to run: load, getenv, construct, answer, done, failed
    environ,          \* os.environ: a function from a subset of Keys to Values
    dotenv_exists,    \* whether load_dotenv finds a .env file
    dotenv_lines,     \* its parsed lines, records [key, value]; value None for a bare KEY line
    remote,           \* how the remote service behaves during this run
    api_key,          \* the value os.getenv returned (None before the read)
    exa,              \* the client object bound by line 7
    requests,         \* the queries passed to exa.answer, in order
    returned,         \* the value the answer call returned (None if none)
    answer_raised,    \* the exception the answer call raised (None if none)
    error,            \* the exception that escaped the top level (None if none)
    exit_code,        \* {} while running, {0} or {1} once the process has ended
    channels,         \* what has been written to stdout, stderr, a log, a store
    trace,            \* the calls made so far, in order
    initial_environ,  \* os.environ as the process started
    prev_environ      \* os.environ before the latest load_dotenv call

vars == <<pc, environ, dotenv_exists, dotenv_lines, remote, api_key, exa,
          requests, returned, answer_raised, error, exit_code, channels,
          trace, initial_environ, prev_environ>>

\* ------------------------------------------------------------ input sets
Environs == UNION {[S -> Values] : S \in SUBSET Keys}

Lines == [key : Keys, value : Values \cup {None}]

Files == UNION {[1..n -> Lines] : n \in 0..MaxFileLen}

\* ---------------------------------------------------- the library calls
Max(S) == CHOOSE m \in S : \A x \in S : x <= m

\* dotenv_values(): the file as a mapping; a later line for a key wins.
DotenvValues(lines) ==
    [k \in {lines[i].key : i \in DOMAIN lines} |->
        lines[Max({i \in DOMAIN lines : lines[i].key = k})].value]

\* load_dotenv(override=...): copy the file's variables into os.environ.
\* A variable already in os.environ is kept unless override; a bare KEY
\* line (value None) sets nothing; a missing file is an empty mapping.
load_dotenv(env, exists, lines, override) ==
    LET values == IF exists THEN DotenvValues(lines) ELSE <<>>
        toset  == {k \in DOMAIN values :
                      /\ values[k] # None
                      /\ (override \/ k \notin DOMAIN env)}
    IN  [raised  |-> None,
         environ |-> [k \in (DOMAIN env) \cup toset |->
                         IF k \in toset THEN values[k] ELSE env[k]]]

\* os.getenv(key, default): the variable's value, or default when unset.
getenv(env, key, default) ==
    [raised |-> None,
     value  |-> IF key \in DOMAIN env THEN env[key] ELSE default]

\* Exa(api_key=...): the outcomes the constructor can have.  A string is
\* stored as given.  The script does not validate a None credential, so
\* the constructor either rejects it or builds a client that holds None.
ExaInit(key) ==
    IF key = None
      THEN {[raised |-> "ValueError", client |-> NoClient],
            [raised |-> None, client |-> [constructed |-> TRUE, api_key |-> None]]}
      ELSE {[raised |-> None, client |-> [constructed |-> TRUE, api_key |-> key]]}

\* client.answer(query): one request to the remote service.
ExaAnswer(client, query, rem) ==
    IF rem = "unreachable"
      THEN [raised |-> "NetworkError", value |-> None, query |-> query]
    ELSE IF client.api_key \notin ValidKeys
      THEN [raised |-> "AuthenticationError", value |-> None, query |-> query]
    ELSE IF rem = "erroring"
      THEN [raised |-> "ServiceError", value |-> None, query |-> query]
    ELSE [raised |-> None, value |-> "Answer", query |-> query]

\* ------------------------------------------------- the script's own code
\* Line 5 with override=True.
LoadDotenvOverride(env, exists, lines) == load_dotenv(env, exists, lines, TRUE)

\* Line 5: load_dotenv()
LoadDotenvCall(env, exists, lines) == load_dotenv(env, exists, lines, FALSE)

\* Line 7 with a hard-coded fallback credential.
GetenvWithDefault(env) == getenv(env, KeyName, "valid-key")

\* Line 7 reading another variable.
GetenvWrongKey(env) == getenv(env, "OTHER", None)

\* Line 7 with os.environ["EXA_API_KEY"], which raises KeyError when unset.
GetenvSubscript(env) ==
    IF KeyName \in DOMAIN env
      THEN [raised |-> None, value |-> env[KeyName]]
      ELSE [raised |-> "KeyError", value |-> None]

\* Line 7: os.getenv("EXA_API_KEY")
GetenvCall(env) == getenv(env, KeyName, None)

\* Line 7 with a hard-coded credential.
ExaCallHardcoded(key) == ExaInit("revoked-key")

\* Line 7: Exa(api_key=<the value read>)
ExaCall(key) == ExaInit(key)

\* Line 8 passing the credential as the query.
AnswerCallWrongArg(client, rem) ==
    IF client.constructed
      THEN ExaAnswer(client, client.api_key, rem)
      ELSE [raised |-> "NameError", value |-> None, query |-> None]

\* Line 8: exa.answer("What's the TCP structure?"); the name exa is
\* unbound unless line 7 completed.
AnswerCall(client, rem) ==
    IF client.constructed
      THEN ExaAnswer(client, Query, rem)
      ELSE [raised |-> "NameError", value |-> None, query |-> None]

\* Line 8 as print(exa.answer(...)).
PrintValue(value, ch) ==
    IF value = None THEN ch ELSE [ch EXCEPT !.stdout = Append(@, value)]

\* Line 8 is an expression statement: its value is dropped.
Discard(value, ch) == ch

\* The statements in another order: the client is built before the read.
NextStmtReordered(stmt) ==
    CASE stmt = "load"      -> "construct"
      [] stmt = "construct" -> "getenv"
      [] stmt = "getenv"    -> "answer"
      [] stmt = "answer"    -> "done"

\* The statement that follows each statement; the script ends after line 8.
NextStmt(stmt) ==
    CASE stmt = "load"      -> "getenv"
      [] stmt = "getenv"    -> "construct"
      [] stmt = "construct" -> "answer"
      [] stmt = "answer"    -> "done"

\* An except clause around the statement that ignores the exception.
TopLevelSwallow(err, stmt) ==
    [pc |-> NextStmt(stmt), error |-> None, stderr |-> <<>>]

\* A loop around the statement that runs it again after an exception.
TopLevelRetry(err, stmt) ==
    [pc |-> stmt, error |-> None, stderr |-> <<>>]

\* No statement is inside a try block: an exception leaves the module,
\* the interpreter prints the traceback on stderr and the process ends.
TopLevel(err, stmt) ==
    [pc |-> "failed", error |-> err, stderr |-> <<err>>]

\* Exit status of the interpreter: 0 at the end of the script, 1 after an
\* uncaught exception, none while a statement remains.
ExitStatus(p) ==
    IF p = "done" THEN {0} ELSE IF p = "failed" THEN {1} ELSE {}

\* Completion of a top-level statement that made the call `name`.
Complete(stmt, name, raised, ch) ==
    LET out == IF raised = None
                 THEN [pc |-> NextStmt(stmt), error |-> error, stderr |-> <<>>]
                 ELSE TopLevel(raised, stmt)
    IN  /\ pc' = out.pc
        /\ error' = out.error
        /\ exit_code' = ExitStatus(out.pc)
        /\ channels' = [ch EXCEPT !.stderr = @ \o out.stderr]
        /\ trace' = Append(trace, name)

\* ------------------------------------------------------------------ Init
Init ==
    /\ pc = "load"
    /\ environ \in Environs
    /\ initial_environ = environ
    /\ prev_environ = environ
    /\ dotenv_exists \in BOOLEAN
    /\ dotenv_lines \in Files
    /\ (~dotenv_exists => dotenv_lines = <<>>)
    /\ remote \in RemoteStates
    /\ api_key = None
    /\ exa = NoClient
    /\ requests = <<>>
    /\ returned = None
    /\ answer_raised = None
    /\ error = None
    /\ exit_code = {}
    /\ channels = NoWrites
    /\ trace = <<>>

\* --------------------------------------------------------------- actions
\* Line 5.
LoadConfig ==
    /\ pc = "load"
    /\ LET r == LoadDotenvCall(environ, dotenv_exists, dotenv_lines) IN
         /\ environ' = r.environ
         /\ prev_environ' = environ
         /\ Complete("load", "load_dotenv", r.raised, channels)
    /\ UNCHANGED <<dotenv_exists, dotenv_lines, remote, api_key, exa, requests,
                   returned, answer_raised, initial_environ>>

\* Line 7, the argument: os.getenv("EXA_API_KEY").
GetEnv ==
    /\ pc = "getenv"
    /\ LET r == GetenvCall(environ) IN
         /\ api_key' = r.value
         /\ Complete("getenv", "getenv", r.raised, channels)
    /\ UNCHANGED <<environ, dotenv_exists, dotenv_lines, remote, exa, requests,
                   returned, answer_raised, initial_environ, prev_environ>>

\* Line 7, the call and the assignment: exa = Exa(api_key=...).
Construct ==
    /\ pc = "construct"
    /\ \E r \in ExaCall(api_key) :
         /\ exa' = r.client
         /\ Complete("construct", "Exa", r.raised, channels)
    /\ UNCHANGED <<environ, dotenv_exists, dotenv_lines, remote, api_key,
                   requests, returned, answer_raised, initial_environ,
                   prev_environ>>

\* Line 8: exa.answer("What's the TCP structure?").
Answer ==
    /\ pc = "answer"
    /\ LET r == AnswerCall(exa, remote) IN
         /\ requests' = IF exa.constructed THEN Append(requests, r.query)
                                           ELSE requests
         /\ returned' = r.value
         /\ answer_raised' = IF exa.constructed THEN r.raised ELSE answer_raised
         /\ Complete("answer", "answer", r.raised, Discard(r.value, channels))
    /\ UNCHANGED <<environ, dotenv_exists, dotenv_lines, remote, api_key, exa,
                   initial_environ, prev_environ>>

Next == LoadConfig \/ GetEnv \/ Construct \/ Answer

Spec == Init /\ [][Next]_vars

\* The script is one thread of sequential, blocking statements: a statement
\* that can run does run.
FairSpec == Spec /\ WF_vars(Next)

\* ------------------------------------------- the loader applied repeatedly
\* load_dotenv() called again on the environment the previous call left.
LoadAgain ==
    /\ pc = "load"
    /\ Len(trace) < MaxLoads
    /\ LET r == LoadDotenvCall(environ, dotenv_exists, dotenv_lines) IN
         /\ environ' = r.environ
         /\ prev_environ' = environ
         /\ error' = r.raised
         /\ trace' = Append(trace, "load_dotenv")
    /\ UNCHANGED <<pc, dotenv_exists, dotenv_lines, remote, api_key, exa,
                   requests, returned, answer_raised, exit_code, channels,
                   initial_environ>>

LoaderNext == LoadAgain

LoaderSpec == Init /\ [][LoaderNext]_vars

\* ------------------------------------------------------------- properties
Order == <<"load_dotenv", "getenv", "Exa", "answer">>

IsPrefix(s, t) == Len(s) <= Len(t) /\ \A i \in DOMAIN s : s[i] = t[i]

Count(s, name) == Cardinality({i \in DOMAIN s : s[i] = name})

Terminated == pc \in {"done", "failed"}

\* The file has a KEY=value line for key that no later line for key replaces.
FileSupplies(key) ==
    /\ dotenv_exists
    /\ \E i \in DOMAIN dotenv_lines :
         /\ dotenv_lines[i].key = key
         /\ dotenv_lines[i].value # None
         /\ \A j \in DOMAIN dotenv_lines :
              j > i => dotenv_lines[j].key # key

\* The value of that line.
FileValue(key) ==
    LET i == CHOOSE n \in DOMAIN dotenv_lines :
                 /\ dotenv_lines[n].key = key
                 /\ \A j \in DOMAIN dotenv_lines : j > n => dotenv_lines[j].key # key
    IN  dotenv_lines[i].value

\* EXA_API_KEY is neither in the process environment nor supplied by a file.
CredentialAbsent ==
    /\ KeyName \notin DOMAIN initial_environ
    /\ ~FileSupplies(KeyName)

\* C1: a run that starts with EXA_API_KEY unset and no configuration file
\* supplying it never completes successfully; it ends in the failure state,
\* and the failure is raised by the client construction or by the answer call.
C1_Safe ==
    CredentialAbsent =>
        /\ pc # "done"
        /\ (pc = "failed" => trace[Len(trace)] \in {"Exa", "answer"})

C1_NoCredentialFails ==
    /\ []C1_Safe
    /\ (CredentialAbsent => <>(pc = "failed"))

C1_Witness ==
    /\ CredentialAbsent
    /\ exa.constructed
    /\ exa.api_key = None
    /\ remote = "up"
    /\ pc = "failed"
    /\ error = "AuthenticationError"

\* C2: once the answer call has raised, the same error has escaped the top
\* level, the process has ended abnormally, nothing was logged or printed and
\* the call was not repeated; the run is never reported as successful.
C2_AnswerErrorEscapes ==
    answer_raised # None =>
        /\ pc = "failed"
        /\ error = answer_raised
        /\ exit_code = {1}
        /\ Len(requests) = 1
        /\ channels.log = <<>>
        /\ channels.stdout = <<>>

C2_Witness ==
    /\ answer_raised = "NetworkError"
    /\ error = "NetworkError"
    /\ pc = "failed"

\* C3: every query passed to the answer capability is the literal
\* "What's the TCP structure?", whatever the environment, the credential and
\* the configuration file are.
C3_QueryIsLiteral ==
    \A i \in DOMAIN requests : requests[i] = "What's the TCP structure?"

C3_Witness ==
    /\ Len(requests) = 1
    /\ exa.api_key = "revoked-key"
    /\ dotenv_exists
    /\ Len(dotenv_lines) > 0

\* C4: every run terminates, in the success state (exit 0, no error, a
\* non-null Answer obtained) or in the failure state (non-zero exit); a failed
\* answer call ends in the failure state; with EXA_API_KEY set to a valid
\* credential and a responding remote service the run ends in success.
C4_ValidSetup ==
    /\ KeyName \in DOMAIN initial_environ
    /\ initial_environ[KeyName] \in ValidKeys
    /\ remote = "up"

C4_Outcome ==
    /\ (pc = "done" => exit_code = {0} /\ error = None /\ returned # None)
    /\ (pc = "failed" => exit_code # {0} /\ exit_code # {} /\ error # None)
    /\ (answer_raised # None => pc = "failed")
    /\ (~Terminated => exit_code = {})

C4_Terminates ==
    /\ []C4_Outcome
    /\ <>Terminated
    /\ (C4_ValidSetup => <>(pc = "done"))

C4_Witness ==
    /\ C4_ValidSetup
    /\ pc = "done"
    /\ exit_code = {0}
    /\ returned = "Answer"

\* C5: the loader never raises, leaves every variable that was in the
\* environment before a load unchanged, and a second load changes nothing.
C5_LoaderIdempotent ==
    /\ error = None
    /\ \A k \in DOMAIN prev_environ :
         k \in DOMAIN environ /\ environ[k] = prev_environ[k]
    /\ \A k \in DOMAIN initial_environ :
         k \in DOMAIN environ /\ environ[k] = initial_environ[k]
    /\ (Len(trace) >= 2 => environ = prev_environ)

C5_Witness ==
    /\ Len(trace) = 2
    /\ KeyName \in DOMAIN initial_environ
    /\ FileSupplies(KeyName)
    /\ FileValue(KeyName) # initial_environ[KeyName]
    /\ FileSupplies("OTHER")
    /\ "OTHER" \notin DOMAIN initial_environ

\* C6: nothing is ever written to standard output, to a log or to a
\* persistent store; the Answer the call returned is dropped.
C6_NoWrites ==
    /\ channels.stdout = <<>>
    /\ channels.log = <<>>
    /\ channels.store = <<>>

C6_Witness ==
    /\ pc = "done"
    /\ returned = "Answer"

\* C7: the calls made are a prefix of load_dotenv, getenv, Exa, answer; no
\* answer call is issued before the client is constructed and the credential
\* is not read before the configuration load has completed.
C7_FixedOrder ==
    /\ IsPrefix(trace, Order)
    /\ (requests # <<>> => exa.constructed)
    /\ (Count(trace, "answer") > 0 => Count(trace, "Exa") > 0)
    /\ (Count(trace, "getenv") > 0 => trace[1] = "load_dotenv")

C7_Witness == trace = Order /\ pc = "done"

\* C8: at most one answer call is issued: exactly one by the end of a run
\* whose client construction succeeded, none when it failed; after a failed
\* answer call no further call is issued.
C8_Count ==
    /\ Len(requests) <= 1
    /\ (Terminated /\ exa.constructed => Len(requests) = 1)
    /\ (~exa.constructed => Len(requests) = 0)

C8_NoRetry == answer_raised # None => requests' = requests

C8_AtMostOneCall == []C8_Count /\ [][C8_NoRetry]_vars

C8_Witness ==
    /\ answer_raised = "ServiceError"
    /\ pc = "failed"
    /\ Len(requests) = 1

\* C9: with the credential absent, the load and the read complete without
\* failing, the read yields None, and a failure comes no earlier than the
\* client construction.
C9_AbsentReadTolerated ==
    CredentialAbsent =>
        /\ (Len(trace) >= 2 => api_key = None)
        /\ (Len(trace) <= 2 => error = None /\ pc # "failed")
        /\ (pc = "failed" => Len(trace) >= 3 /\ trace[3] = "Exa")

C9_Witness ==
    /\ CredentialAbsent
    /\ api_key = None
    /\ error = "ValueError"
    /\ trace = <<"load_dotenv", "getenv", "Exa">>

\* C10: the credential is read once; the client holds the value EXA_API_KEY
\* has right after the load (the pre-existing value if there was one, else
\* the file's value, else None); after the load the environment is not
\* changed and after construction the client is not changed.
C10_Expected ==
    IF KeyName \in DOMAIN initial_environ THEN initial_environ[KeyName]
    ELSE IF FileSupplies(KeyName) THEN FileValue(KeyName)
    ELSE None

C10_Bound ==
    /\ Count(trace, "getenv") <= 1
    /\ (exa.constructed => Count(trace, "getenv") = 1)
    /\ (exa.constructed => exa.api_key = C10_Expected)
    /\ (Len(trace) >= 1 =>
          IF KeyName \in DOMAIN environ
            THEN environ[KeyName] = C10_Expected
            ELSE C10_Expected = None)

C10_Frozen ==
    /\ (Len(trace) >= 1 => environ' = environ)
    /\ (exa.constructed => exa' = exa)

C10_CredentialBoundOnce == []C10_Bound /\ [][C10_Frozen]_vars

C10_Witness ==
    /\ KeyName \notin DOMAIN initial_environ
    /\ exa.constructed
    /\ exa.api_key = "valid-key"
    /\ pc = "done"

====
